---- MODULE Spec2Model ----
(***************************************************************************)
(* State-machine model of ReminderApp (src/Reminder.py): the drink-water   *)
(* reminder cycle, its input validation, its one-second tick chain built   *)
(* on root.after, its notification windows and the main window's           *)
(* visibility.  Every handler of the Tk event loop is one action.          *)
(***************************************************************************)
EXTENDS Integers, Sequences, FiniteSets, Bags, TLC

(***************************************************************************)
(* Text.  An entry's text is a sequence of one-character strings, so that  *)
(* strip(), int() and strptime("%H:%M") are computed character by          *)
(* character as Python computes them.                                      *)
(***************************************************************************)
Digits == <<"0", "1", "2", "3", "4", "5", "6", "7", "8", "9">>

IsDigit(c) == \E i \in 1..10 : Digits[i] = c

DigitVal(c) == (CHOOSE i \in 1..10 : Digits[i] = c) - 1

IsSpace(c) == c = " "

RECURSIVE LStrip(_)
LStrip(s) == IF s # <<>> /\ IsSpace(Head(s)) THEN LStrip(Tail(s)) ELSE s

RECURSIVE RStrip(_)
RStrip(s) ==
    IF s # <<>> /\ IsSpace(s[Len(s)]) THEN RStrip(SubSeq(s, 1, Len(s) - 1)) ELSE s

\* str.strip()
Strip(s) == RStrip(LStrip(s))

AllDigits(s) == s # <<>> /\ \A i \in 1..Len(s) : IsDigit(s[i])

RECURSIVE DecVal(_)
DecVal(s) == IF s = <<>> THEN 0 ELSE 10 * DecVal(SubSeq(s, 1, Len(s) - 1)) + DigitVal(s[Len(s)])

IsSign(c) == c = "-" \/ c = "+"

\* int(text) succeeds: optional surrounding blanks, optional sign, digits
IntOk(text) ==
    LET s == Strip(text)
    IN  /\ s # <<>>
        /\ AllDigits(IF IsSign(Head(s)) THEN Tail(s) ELSE s)

\* the value int(text) returns when it succeeds
IntVal(text) ==
    LET s == Strip(text)
    IN  IF Head(s) = "-" THEN 0 - DecVal(Tail(s))
        ELSE IF Head(s) = "+" THEN DecVal(Tail(s))
        ELSE DecVal(s)

MaxHour == 23

MaxMinute == 59

\* one strptime field: one or two digits, value at most hi
FieldOk(f, hi) == Len(f) \in {1, 2} /\ AllDigits(f) /\ DecVal(f) <= hi

\* positions of the ":" that split the text into an %H and an %M field
ColonAt(s) ==
    {i \in 1..Len(s) : /\ s[i] = ":"
                       /\ FieldOk(SubSeq(s, 1, i - 1), MaxHour)
                       /\ FieldOk(SubSeq(s, i + 1, Len(s)), MaxMinute)}

\* datetime.strptime(s, "%H:%M") succeeds
TimeOk(s) == ColonAt(s) # {}

MinutesPerHour == 60

\* the parsed time of day, in minutes since midnight
TimeVal(s) ==
    LET i == CHOOSE k \in ColonAt(s) : TRUE
    IN  DecVal(SubSeq(s, 1, i - 1)) * MinutesPerHour + DecVal(SubSeq(s, i + 1, Len(s)))

SecondsPerMinute == 60

(***************************************************************************)
(* validate_inputs: the key of the first failing check, or "ok".  The      *)
(* clock t is the time of day in seconds since midnight.                   *)
(***************************************************************************)
\* mutant: the end instant belongs to the window
ValidationError_closed(iv, st, en, t) ==
    IF Strip(iv) = <<>> THEN "interval_empty"
    ELSE IF ~IntOk(Strip(iv)) THEN "interval_invalid"
    ELSE IF IntVal(Strip(iv)) <= 0 THEN "interval_error"
    ELSE IF ~(TimeOk(Strip(st)) /\ TimeOk(Strip(en))) THEN "time_invalid"
    ELSE IF TimeVal(Strip(en)) <= TimeVal(Strip(st)) THEN "time_error"
    ELSE IF ~(/\ TimeVal(Strip(st)) * SecondsPerMinute <= t
              /\ t <= TimeVal(Strip(en)) * SecondsPerMinute) THEN "outside_range"
    ELSE "ok"

\* mutant: the times are examined before the interval
ValidationError_times_first(iv, st, en, t) ==
    IF ~(TimeOk(Strip(st)) /\ TimeOk(Strip(en))) THEN "time_invalid"
    ELSE IF TimeVal(Strip(en)) <= TimeVal(Strip(st)) THEN "time_error"
    ELSE IF Strip(iv) = <<>> THEN "interval_empty"
    ELSE IF ~IntOk(Strip(iv)) THEN "interval_invalid"
    ELSE IF IntVal(Strip(iv)) <= 0 THEN "interval_error"
    ELSE IF ~(/\ TimeVal(Strip(st)) * SecondsPerMinute <= t
              /\ t < TimeVal(Strip(en)) * SecondsPerMinute) THEN "outside_range"
    ELSE "ok"

\* mutant: an empty window (end = start) passes the order check
ValidationError_equal_ok(iv, st, en, t) ==
    IF Strip(iv) = <<>> THEN "interval_empty"
    ELSE IF ~IntOk(Strip(iv)) THEN "interval_invalid"
    ELSE IF IntVal(Strip(iv)) <= 0 THEN "interval_error"
    ELSE IF ~(TimeOk(Strip(st)) /\ TimeOk(Strip(en))) THEN "time_invalid"
    ELSE IF TimeVal(Strip(en)) < TimeVal(Strip(st)) THEN "time_error"
    ELSE IF ~(/\ TimeVal(Strip(st)) * SecondsPerMinute <= t
              /\ t < TimeVal(Strip(en)) * SecondsPerMinute) THEN "outside_range"
    ELSE "ok"

ValidationError(iv, st, en, t) ==
    IF Strip(iv) = <<>> THEN "interval_empty"
    ELSE IF ~IntOk(Strip(iv)) THEN "interval_invalid"
    ELSE IF IntVal(Strip(iv)) <= 0 THEN "interval_error"
    ELSE IF ~(TimeOk(Strip(st)) /\ TimeOk(Strip(en))) THEN "time_invalid"
    ELSE IF TimeVal(Strip(en)) <= TimeVal(Strip(st)) THEN "time_error"
    ELSE IF ~(/\ TimeVal(Strip(st)) * SecondsPerMinute <= t
              /\ t < TimeVal(Strip(en)) * SecondsPerMinute) THEN "outside_range"
    ELSE "ok"


(***************************************************************************)
(* Bounds of the model and the inputs it draws.                            *)
(***************************************************************************)
\* pending root.after(1000, schedule_update) callbacks at any time
MaxTimers == 2

\* notification windows scheduled or open at any time
MaxNotes == 2

\* settings windows open at any time
MaxSettings == 1

TXT_1 == <<"1">>
TXT_blank == <<" ">>
TXT_x == <<"x">>
TXT_0 == <<"0">>
TXT_m1 == <<"-", "1">>
TXT_0900 == <<"0", "9", ":", "0", "0">>
TXT_1730 == <<"1", "7", ":", "3", "0">>
TXT_1800 == <<"1", "8", ":", "0", "0">>
TXT_9h == <<"9", "h">>

Case(iv, st, en) == [interval |-> iv, start_time |-> st, end_time |-> en]

\* what the user types into the three entries (or the settings file holds)
InputCases ==
    { Case(TXT_1, TXT_0900, TXT_1730),      \* valid
      Case(TXT_blank, TXT_0900, TXT_1730),  \* empty interval
      Case(TXT_x, TXT_0900, TXT_1730),      \* not a number
      Case(TXT_0, TXT_0900, TXT_1730),      \* not positive
      Case(TXT_m1, TXT_0900, TXT_1730),     \* negative
      Case(TXT_1, TXT_9h, TXT_1730),        \* malformed time
      Case(TXT_1, TXT_1730, TXT_0900) }     \* end before start

SecondsPerHour == MinutesPerHour * SecondsPerMinute

T_0900 == 9 * SecondsPerHour
T_1800 == 18 * SecondsPerHour

\* the instants datetime.now() is sampled at (seconds since midnight)
NowSet == {T_0900, T_1800}

T_1730 == 17 * SecondsPerHour + 30 * SecondsPerMinute

\* the instants around the boundaries of the windows, one second apart
BoundaryNowSet == {T_0900 - 1, T_0900, T_0900 + 1, T_1730 - 1, T_1730, T_1730 + 1,
                   T_1800 - 1, T_1800}

WindowTimes == {TXT_0900, TXT_1730, TXT_1800}

\* a valid interval with every pair of the window times: in order, equal, inverted
WindowCases == {Case(TXT_1, st, en) : st \in WindowTimes, en \in WindowTimes}

(***************************************************************************)
(* State.                                                                  *)
(***************************************************************************)
VARIABLES
    is_running,        \* self.is_running
    remaining_time,    \* self.remaining_time
    after_id,          \* self.after_id: 0 is None, else an id root.after returned
    window_hidden,     \* self.window_hidden
    tray_icon,         \* self.tray_icon is not None
    interval_var,      \* text of the interval entry
    start_time_var,    \* text of the start time entry
    end_time_var,      \* text of the end time entry
    input_state,       \* state of the three entries: "normal" or "disabled"
    start_button,      \* text key of the Start/Stop button
    countdown_label,   \* <<minutes, seconds>> shown by the countdown label
    timers,            \* ids of the pending root.after(1000, schedule_update), oldest first
    shows,             \* pending root.after(0, _show), in order
    notes,             \* bag of the open NotificationWindows
    root_state,        \* main window: "normal" or "withdrawn"
    tray_menu,         \* default item of the tray menu
    settings_windows,  \* open settings Toplevels
    now,               \* datetime.now(), seconds since midnight
    armed,             \* history: remaining_time the running cycle was armed with, 0 if none
    fired,             \* history: timer firings the running cycle has handled
    halted,            \* history: an acknowledgement outside the window halted the
                       \* cycle and no start() has armed it since
    main_pc,           \* main thread: statement of minimize_to_tray it is at, or "idle"
    tray_pc,           \* TrayIconThread: <<menu callback, statement it is at>>
    msgbox,            \* asd.py: stack of the open messagebox.showinfo dialogs
    pending            \* asd.py: bag of the pending root.after callbacks

vars == <<is_running, remaining_time, after_id, window_hidden, tray_icon,
          interval_var, start_time_var, end_time_var, input_state, start_button,
          countdown_label, timers, shows, notes, root_state, tray_menu,
          settings_windows, now, armed, fired, halted, main_pc, tray_pc, msgbox,
          pending>>

None == 0

\* the text "Time Remaining: 00:00" of the countdown_label key
ResetLabel == <<0, 0>>

\* f"{prefix}: {minutes:02d}:{seconds:02d}" with divmod(remaining, 60)
FormatLabel(r) == <<r \div SecondsPerMinute, r % SecondsPerMinute>>

\* the fields a handler of the reminder cycle reads and writes
St == [is_running |-> is_running, remaining_time |-> remaining_time,
       after_id |-> after_id, timers |-> timers, input_state |-> input_state,
       start_button |-> start_button, countdown_label |-> countdown_label,
       shows |-> shows]

Note(title, message, callback) ==
    [title |-> title, message |-> message, callback |-> callback]

\* root.after(0, _show)
show_notification(s, title, message, callback) ==
    [s EXCEPT !.shows = Append(@, Note(title, message, callback))]

Range(q) == {q[i] : i \in 1..Len(q)}

\* the id root.after returns: one no pending callback and no held handle has
NewId(s) ==
    LET free == (1..(MaxTimers + 1)) \ (Range(s.timers) \cup {s.after_id})
    IN  IF free = {} THEN MaxTimers + 2
        ELSE CHOOSE i \in free : \A j \in free : i <= j

\* mutant: the expiry is raised by the update that reaches 0
update_countdown_eager(s) ==
    IF ~s.is_running THEN s
    ELSE IF s.remaining_time > 1
         THEN [s EXCEPT !.remaining_time = @ - 1,
                        !.countdown_label = FormatLabel(s.remaining_time - 1)]
         ELSE show_notification([s EXCEPT !.is_running = FALSE, !.remaining_time = 0],
                                "app_name", "drink_water", "on_notification_closed")

update_countdown(s) ==
    IF ~s.is_running THEN s
    ELSE IF s.remaining_time > 0
         THEN [s EXCEPT !.remaining_time = @ - 1,
                        !.countdown_label = FormatLabel(s.remaining_time - 1)]
         ELSE show_notification([s EXCEPT !.is_running = FALSE],
                                "app_name", "drink_water", "on_notification_closed")

\* mutant: the first update waits for the first timer firing
schedule_update_lazy(s) ==
    IF ~s.is_running THEN s
    ELSE LET id == NewId(s)
         IN  [s EXCEPT !.after_id = id, !.timers = Append(@, id)]

schedule_update(s) ==
    IF ~s.is_running THEN s
    ELSE LET u == update_countdown(s)
             id == NewId(u)
         IN  [u EXCEPT !.after_id = id, !.timers = Append(@, id)]

\* root.after_cancel(id): a no-op for an id whose callback has run
after_cancel(q, id) == SelectSeq(q, LAMBDA x : x # id)

set_input_state(s, state) == [s EXCEPT !.input_state = state]

\* mutant: the timer is cancelled but its handle is kept
stop_reminder_keeps_handle(s) ==
    LET u == [set_input_state([s EXCEPT !.is_running = FALSE,
                                        !.start_button = "start_button"], "normal")
                 EXCEPT !.countdown_label = ResetLabel]
    IN  IF u.after_id # None
        THEN [u EXCEPT !.timers = after_cancel(@, u.after_id)]
        ELSE u

stop_reminder(s) ==
    LET u == [set_input_state([s EXCEPT !.is_running = FALSE,
                                        !.start_button = "start_button"], "normal")
                 EXCEPT !.countdown_label = ResetLabel]
    IN  IF u.after_id # None
        THEN [u EXCEPT !.timers = after_cancel(@, u.after_id), !.after_id = None]
        ELSE u

\* validate_inputs on the instance's own entries, errors shown
validate_inputs(s) ==
    LET e == ValidationError(interval_var, start_time_var, end_time_var, now)
    IN  IF e = "ok" THEN s ELSE show_notification(s, "invalid_input", e, "None")

InputsValid == ValidationError(interval_var, start_time_var, end_time_var, now) = "ok"

\* mutant: the entries are left enabled
start_reminder_unlocked(s) ==
    LET v == validate_inputs(s)
    IN  IF ~InputsValid THEN v
        ELSE schedule_update(
                 [v EXCEPT !.is_running = TRUE,
                           !.start_button = "stop_button",
                           !.remaining_time = IntVal(interval_var) * SecondsPerMinute])

\* mutant: the countdown is loaded from the entry before the inputs are checked
start_reminder_eager(s) ==
    LET s1 == IF IntOk(interval_var)
              THEN [s EXCEPT !.remaining_time = IntVal(interval_var) * SecondsPerMinute]
              ELSE s
        v == validate_inputs(s1)
    IN  IF ~InputsValid THEN v
        ELSE schedule_update(
                 [set_input_state([v EXCEPT !.is_running = TRUE,
                                            !.start_button = "stop_button"], "disabled")
                     EXCEPT !.remaining_time = IntVal(interval_var) * SecondsPerMinute])

start_reminder(s) ==
    LET v == validate_inputs(s)
    IN  IF ~InputsValid THEN v
        ELSE schedule_update(
                 [set_input_state([v EXCEPT !.is_running = TRUE,
                                            !.start_button = "stop_button"], "disabled")
                     EXCEPT !.remaining_time = IntVal(interval_var) * SecondsPerMinute])

toggle_reminder(s) == IF s.is_running THEN stop_reminder(s) ELSE start_reminder(s)

\* int(self.interval_var.get()) raises ValueError out of the handler when the
\* text is no integer: the handler ends there, is_running already set
\* mutant: the countdown restarts without validating the inputs
on_notification_closed_unguarded(s) ==
    LET s1 == [s EXCEPT !.is_running = TRUE]
    IN  IF ~IntOk(interval_var) THEN s1
        ELSE schedule_update(
                 [s1 EXCEPT !.remaining_time = IntVal(interval_var) * SecondsPerMinute])

on_notification_closed(s) ==
    LET s1 == [s EXCEPT !.is_running = TRUE]
    IN  IF ~IntOk(interval_var) THEN s1
        ELSE LET s2 == [s1 EXCEPT !.remaining_time = IntVal(interval_var) * SecondsPerMinute]
                 v == validate_inputs(s2)
             IN  IF ~InputsValid THEN stop_reminder(v) ELSE schedule_update(v)

\* pystray menu built by is_show_window: its default item
is_show_window(hidden) == IF hidden THEN "restore_window" ELSE "hide_window"

\* the bounds of the model, on the state a handler leaves
Bounded ==
    /\ Len(timers) <= MaxTimers
    /\ Len(shows) + BagCardinality(notes) <= MaxNotes
    /\ settings_windows <= MaxSettings

Commit(s) ==
    /\ is_running' = s.is_running
    /\ remaining_time' = s.remaining_time
    /\ after_id' = s.after_id
    /\ timers' = s.timers
    /\ input_state' = s.input_state
    /\ start_button' = s.start_button
    /\ countdown_label' = s.countdown_label
    /\ shows' = s.shows

cycleVars == <<is_running, remaining_time, after_id, timers, input_state,
               start_button, countdown_label, shows>>
entryVars == <<interval_var, start_time_var, end_time_var>>
visVars == <<window_hidden, tray_icon, root_state, tray_menu>>
histVars == <<armed, fired, halted>>
\* position of the two threads inside the visibility handlers; open dialogs
\* and pending callbacks of the asd.py variant
extVars == <<main_pc, tray_pc, msgbox, pending>>

\* the TrayIconThread runs no menu callback
TrayIdle == <<"none", "idle">>

\* history: a handler armed the countdown with n seconds and ran its first update
Rearm(n) == armed' = n /\ fired' = 0

\* history: a handler left no armed cycle (stop_reminder ran, or
\* on_notification_closed was aborted before it armed)
Disarm == armed' = 0 /\ fired' = 0

(***************************************************************************)
(* Construction: ReminderApp.__init__.  The entries hold what settings.json*)
(* holds (load_setting does not validate it); create_tray_icon succeeds    *)
(* (tray) or fails.                                                        *)
(***************************************************************************)
ConstructFrom(tray, cases, instants) ==
    /\ is_running = FALSE
    /\ remaining_time = 0
    /\ window_hidden = FALSE
    /\ after_id = None
    /\ tray_icon = tray
    /\ \E c \in cases :
          /\ interval_var = c.interval
          /\ start_time_var = c.start_time
          /\ end_time_var = c.end_time
    /\ input_state = "normal"
    /\ start_button = "start_button"
    /\ countdown_label = ResetLabel
    /\ timers = <<>>
    /\ shows = <<>>
    /\ notes = EmptyBag
    /\ root_state = "normal"
    /\ tray_menu = IF tray THEN is_show_window(FALSE) ELSE "none"
    /\ settings_windows = 0
    /\ now \in instants
    /\ armed = 0
    /\ fired = 0
    /\ halted = FALSE
    /\ main_pc = "idle"
    /\ tray_pc = TrayIdle
    /\ msgbox = <<>>
    /\ pending = EmptyBag

Construct(tray) == ConstructFrom(tray, InputCases, NowSet)

\* the application started and its tray icon was created
Init == Construct(TRUE)

(***************************************************************************)
(* Handlers of the event loop.  A pending root.after(0, _show) is due at   *)
(* once: the event loop runs it before it handles anything else, so every  *)
(* other handler waits for shows to be empty.                              *)
(***************************************************************************)
\* the Start/Stop button of the main window
ToggleReminder ==
    /\ shows = <<>>
    /\ root_state = "normal"
    /\ Commit(toggle_reminder(St))
    /\ IF is_running THEN Disarm
       ELSE IF InputsValid THEN Rearm(IntVal(interval_var) * SecondsPerMinute)
       ELSE UNCHANGED <<armed, fired>>
    /\ halted' = IF ~is_running /\ InputsValid THEN FALSE ELSE halted
    /\ UNCHANGED <<entryVars, visVars, notes, settings_windows, now, extVars>>
    /\ Bounded'

\* the pending root.after(1000, schedule_update) that is due first fires
TimerFire ==
    /\ shows = <<>>
    /\ timers # <<>>
    /\ Commit(schedule_update([St EXCEPT !.timers = Tail(@)]))
    /\ fired' = IF is_running /\ armed > 0 THEN fired + 1 ELSE fired
    /\ UNCHANGED <<armed, halted, entryVars, visVars, notes, settings_windows, now, extVars>>
    /\ Bounded'

\* mutant: the notification restores the main window when it opens
ShowFire_restoring ==
    /\ shows # <<>>
    /\ notes' = notes (+) SetToBag({Head(shows)})
    /\ shows' = Tail(shows)
    /\ window_hidden' = FALSE
    /\ root_state' = "normal"
    /\ UNCHANGED <<is_running, remaining_time, after_id, timers, input_state,
                   start_button, countdown_label, entryVars, tray_icon, tray_menu,
                   settings_windows, now, histVars, extVars>>

\* a pending root.after(0, _show) fires: the NotificationWindow opens
ShowFire ==
    /\ shows # <<>>
    /\ notes' = notes (+) SetToBag({Head(shows)})
    /\ shows' = Tail(shows)
    /\ UNCHANGED <<is_running, remaining_time, after_id, timers, input_state,
                   start_button, countdown_label, entryVars, visVars,
                   settings_windows, now, histVars, extVars>>

\* mutant: the callback runs a second time for the same window
Close_twice(n) ==
    /\ shows = <<>>
    /\ BagIn(n, notes)
    /\ notes' = notes (-) SetToBag({n})
    /\ IF n.callback = "on_notification_closed"
       THEN /\ Commit(on_notification_closed(on_notification_closed(St)))
            /\ IF InputsValid THEN Rearm(IntVal(interval_var) * SecondsPerMinute)
               ELSE Disarm
            /\ halted' = (halted \/ ValidationError(interval_var, start_time_var,
                                                     end_time_var, now) = "outside_range")
       ELSE UNCHANGED <<cycleVars, histVars>>
    /\ UNCHANGED <<entryVars, visVars, settings_windows, now, extVars>>
    /\ Bounded'

\* NotificationWindow.close: the OK button or the window manager's close
Close(n) ==
    /\ shows = <<>>
    /\ BagIn(n, notes)
    /\ notes' = notes (-) SetToBag({n})
    /\ IF n.callback = "on_notification_closed"
       THEN /\ Commit(on_notification_closed(St))
            /\ IF InputsValid THEN Rearm(IntVal(interval_var) * SecondsPerMinute)
               ELSE Disarm
            /\ halted' = (halted \/ ValidationError(interval_var, start_time_var,
                                                     end_time_var, now) = "outside_range")
       ELSE UNCHANGED <<cycleVars, histVars>>
    /\ UNCHANGED <<entryVars, visVars, settings_windows, now, extVars>>
    /\ Bounded'

\* the user edits the entries of the main window while they are enabled
EditInputs(c) ==
    /\ shows = <<>>
    /\ root_state = "normal"
    /\ input_state = "normal"
    /\ <<interval_var, start_time_var, end_time_var>> # <<c.interval, c.start_time, c.end_time>>
    /\ interval_var' = c.interval
    /\ start_time_var' = c.start_time
    /\ end_time_var' = c.end_time
    /\ UNCHANGED <<cycleVars, visVars, notes, settings_windows, now, histVars, extVars>>

\* the wall clock moves to another sampled instant
Clock(t) ==
    /\ shows = <<>>
    /\ t # now
    /\ now' = t
    /\ UNCHANGED <<cycleVars, entryVars, visVars, notes, settings_windows, histVars,
                   extVars>>

\* the fields the handlers of the window's visibility read and write
Vis == [window_hidden |-> window_hidden, root_state |-> root_state,
        tray_icon |-> tray_icon, tray_menu |-> tray_menu]

CommitVis(v) ==
    /\ window_hidden' = v.window_hidden
    /\ root_state' = v.root_state
    /\ tray_icon' = v.tray_icon
    /\ tray_menu' = v.tray_menu

\* self.tray_icon.menu = self.is_show_window().  Without a tray icon the
\* assignment raises AttributeError: the handler ends there, the window
\* already withdrawn or shown and window_hidden already written
set_tray_menu(v) ==
    IF v.tray_icon THEN [v EXCEPT !.tray_menu = is_show_window(v.window_hidden)] ELSE v

\* mutant: the handler toggles, it shows a window that is hidden
minimize_to_tray_toggling(v) ==
    IF ~v.window_hidden
    THEN set_tray_menu([v EXCEPT !.root_state = "withdrawn", !.window_hidden = TRUE])
    ELSE set_tray_menu([v EXCEPT !.root_state = "normal", !.window_hidden = FALSE])

minimize_to_tray(v) ==
    IF ~v.window_hidden
    THEN set_tray_menu([v EXCEPT !.root_state = "withdrawn", !.window_hidden = TRUE])
    ELSE v

restore_window(v) ==
    IF v.window_hidden
    THEN set_tray_menu([v EXCEPT !.root_state = "normal", !.window_hidden = FALSE])
    ELSE v

toggle_window(v) == IF v.window_hidden THEN restore_window(v) ELSE minimize_to_tray(v)

\* WM_DELETE_WINDOW of the main window (the main loop's thread)
MinimizeToTray ==
    /\ shows = <<>>
    /\ root_state = "normal"
    /\ CommitVis(minimize_to_tray(Vis))
    /\ UNCHANGED <<cycleVars, entryVars, notes, settings_windows, now, histVars, extVars>>

\* default item of the tray menu: pystray calls the handler in the thread
\* that runs tray_icon.run, the TrayIconThread
ToggleWindow ==
    /\ shows = <<>>
    /\ tray_icon
    /\ CommitVis(toggle_window(Vis))
    /\ UNCHANGED <<cycleVars, entryVars, notes, settings_windows, now, histVars, extVars>>

\* "Settings" item of the tray menu, called in the TrayIconThread
OpenSettings ==
    /\ shows = <<>>
    /\ tray_icon
    /\ CommitVis(restore_window(Vis))
    /\ settings_windows' = settings_windows + 1
    /\ UNCHANGED <<cycleVars, entryVars, notes, now, histVars, extVars>>
    /\ Bounded'

\* update_ui_text, as save_and_close calls it
update_ui_text(s) ==
    [s EXCEPT !.countdown_label = ResetLabel,
              !.start_button = IF s.is_running THEN "stop_button" ELSE "start_button"]

\* the Save button of a settings window holding the texts c
SaveAndClose(c) ==
    /\ shows = <<>>
    /\ settings_windows > 0
    /\ IF ValidationError(c.interval, c.start_time, c.end_time, now) # "ok"
       THEN /\ Commit(show_notification(St, "invalid_input", "invalid_input", "None"))
            /\ UNCHANGED <<entryVars, settings_windows, visVars>>
       ELSE /\ interval_var' = c.interval
            /\ start_time_var' = c.start_time
            /\ end_time_var' = c.end_time
            /\ Commit(update_ui_text(St))
            /\ CommitVis(set_tray_menu(Vis))
            /\ settings_windows' = settings_windows - 1
    /\ UNCHANGED <<notes, now, histVars, extVars>>
    /\ Bounded'

\* "Exit" item of the tray menu, called in the TrayIconThread: the pending
\* tick named by after_id is cancelled, the icon stopped, the root window
\* destroyed with every window and pending callback it owns
ExitApplication ==
    /\ shows = <<>>
    /\ tray_icon
    /\ after_id' = None
    /\ timers' = <<>>
    /\ shows' = <<>>
    /\ notes' = EmptyBag
    /\ settings_windows' = 0
    /\ CommitVis([Vis EXCEPT !.tray_icon = FALSE, !.tray_menu = "none",
                             !.root_state = "destroyed"])
    /\ UNCHANGED <<is_running, remaining_time, input_state, start_button,
                   countdown_label, entryVars, now, histVars, extVars>>

\* the reminder cycle: the main window's button and entries, the timers,
\* the notification windows and the clock
Next ==
    \/ ToggleReminder
    \/ TimerFire
    \/ ShowFire
    \/ \E n \in BagToSet(notes) : Close(n)
    \/ \E c \in InputCases : EditInputs(c)
    \/ \E t \in NowSet : Clock(t)

Spec == Init /\ [][Next]_vars

(***************************************************************************)
(* Validation at the boundaries of the window: the application constructed *)
(* with every pair of window times, the clock sampled around the           *)
(* boundaries, and the handlers that run validate_inputs (the Start/Stop   *)
(* button) or show its outcome.                                            *)
(***************************************************************************)
InitValidate == ConstructFrom(TRUE, WindowCases, BoundaryNowSet)

NextValidate ==
    \/ ToggleReminder
    \/ ShowFire
    \/ \E n \in BagToSet(notes) : Close(n)
    \/ \E t \in BoundaryNowSet : Clock(t)

SpecValidate == InitValidate /\ [][NextValidate]_vars

(***************************************************************************)
(* The window, the tray icon and the settings window, with the reminder    *)
(* cycle: create_tray_icon succeeds or fails at construction; the tray     *)
(* menu (when the icon exists) hides and restores the window, opens the    *)
(* settings window and exits.                                              *)
(***************************************************************************)
\* what the entries and the settings window hold
UICases ==
    { Case(TXT_1, TXT_0900, TXT_1730),      \* valid
      Case(TXT_1, TXT_1730, TXT_0900) }     \* end before start

InitUI == \E tray \in BOOLEAN : ConstructFrom(tray, UICases, NowSet)

NextUI ==
    \/ ToggleReminder
    \/ TimerFire
    \/ ShowFire
    \/ \E n \in BagToSet(notes) : Close(n)
    \/ \E t \in NowSet : Clock(t)
    \/ MinimizeToTray
    \/ ToggleWindow
    \/ OpenSettings
    \/ \E c \in UICases : SaveAndClose(c)
    \/ ExitApplication

SpecUI == InitUI /\ [][NextUI]_vars

(***************************************************************************)
(* The order of the checks of validate_inputs: the entries and the         *)
(* settings window hold texts that fail several checks at once, and the    *)
(* handlers that validate are the Start/Stop button and the Save button of *)
(* the settings window.                                                    *)
(***************************************************************************)
OrderIntervals == {TXT_1, TXT_blank, TXT_x, TXT_0}
OrderStarts == {TXT_0900, TXT_9h, TXT_1730}
OrderEnds == {TXT_1730, TXT_0900}

OrderCases ==
    {Case(iv, st, en) : iv \in OrderIntervals, st \in OrderStarts, en \in OrderEnds}

InitOrder == ConstructFrom(TRUE, OrderCases, NowSet)

NextOrder ==
    \/ ToggleReminder
    \/ ShowFire
    \/ \E n \in BagToSet(notes) : Close(n)
    \/ \E t \in NowSet : Clock(t)
    \/ OpenSettings
    \/ \E c \in OrderCases : SaveAndClose(c)

SpecOrder == InitOrder /\ [][NextOrder]_vars

(***************************************************************************)
(* The visibility handlers statement by statement.  minimize_to_tray runs  *)
(* in the main loop's thread (WM_DELETE_WINDOW); toggle_window and         *)
(* open_settings run in the TrayIconThread, whose statements interleave    *)
(* with those of the main thread.  A Tk call made in the TrayIconThread    *)
(* (withdraw, deiconify, Toplevel) is handed to the main loop, which       *)
(* serves it between two handlers of its own: the calling thread waits     *)
(* until then.                                                             *)
(***************************************************************************)
\* the main loop is between two handlers
MainLoopIdle_unmarshalled == TRUE

MainLoopIdle == main_pc = "idle"

TrayCallbacks == {"toggle_window", "open_settings"}

\* control returns from restore_window or minimize_to_tray to the menu
\* callback fn: open_settings goes on to build its window
TrayReturn(fn) == IF fn = "open_settings" THEN <<fn, "Toplevel">> ELSE TrayIdle

raceRest == <<cycleVars, entryVars, notes, now, histVars, msgbox, pending, tray_icon>>

\* the main loop dispatches WM_DELETE_WINDOW: minimize_to_tray tests
\* window_hidden
MainClose ==
    /\ main_pc = "idle"
    /\ main_pc' = IF ~window_hidden THEN "withdraw" ELSE "idle"
    /\ UNCHANGED <<raceRest, tray_pc, window_hidden, root_state, tray_menu,
                   settings_windows>>

\* the next statement of minimize_to_tray in the main thread
MainStep ==
    /\ main_pc # "idle"
    /\ \/ /\ main_pc = "withdraw"
          /\ root_state' = "withdrawn"
          /\ main_pc' = "window_hidden"
          /\ UNCHANGED <<window_hidden, tray_menu>>
       \/ /\ main_pc = "window_hidden"
          /\ window_hidden' = TRUE
          /\ main_pc' = "menu"
          /\ UNCHANGED <<root_state, tray_menu>>
       \/ /\ main_pc = "menu"
          /\ tray_menu' = is_show_window(window_hidden)
          /\ main_pc' = "idle"
          /\ UNCHANGED <<root_state, window_hidden>>
    /\ UNCHANGED <<raceRest, tray_pc, settings_windows>>

\* pystray calls a menu callback in the TrayIconThread; toggle_window
\* tests window_hidden and calls one of the two handlers
TrayClick ==
    /\ tray_icon
    /\ tray_pc = TrayIdle
    /\ \E fn \in TrayCallbacks :
          tray_pc' = IF fn = "toggle_window" /\ ~window_hidden
                     THEN <<fn, "minimize_to_tray">>
                     ELSE <<fn, "restore_window">>
    /\ UNCHANGED <<raceRest, main_pc, window_hidden, root_state, tray_menu,
                   settings_windows>>

\* the next statement of the menu callback in the TrayIconThread
TrayStep ==
    /\ tray_pc # TrayIdle
    /\ LET fn == tray_pc[1]
           at == tray_pc[2]
       IN  \/ /\ at = "restore_window"
              /\ tray_pc' = IF window_hidden THEN <<fn, "deiconify">> ELSE TrayReturn(fn)
              /\ UNCHANGED <<window_hidden, root_state, tray_menu, settings_windows>>
           \/ /\ at = "deiconify"
              /\ MainLoopIdle
              /\ root_state' = "normal"
              /\ tray_pc' = <<fn, "window_hidden_False">>
              /\ UNCHANGED <<window_hidden, tray_menu, settings_windows>>
           \/ /\ at = "window_hidden_False"
              /\ window_hidden' = FALSE
              /\ tray_pc' = <<fn, "menu">>
              /\ UNCHANGED <<root_state, tray_menu, settings_windows>>
           \/ /\ at = "minimize_to_tray"
              /\ tray_pc' = IF ~window_hidden THEN <<fn, "withdraw">> ELSE TrayReturn(fn)
              /\ UNCHANGED <<window_hidden, root_state, tray_menu, settings_windows>>
           \/ /\ at = "withdraw"
              /\ MainLoopIdle
              /\ root_state' = "withdrawn"
              /\ tray_pc' = <<fn, "window_hidden_True">>
              /\ UNCHANGED <<window_hidden, tray_menu, settings_windows>>
           \/ /\ at = "window_hidden_True"
              /\ window_hidden' = TRUE
              /\ tray_pc' = <<fn, "menu">>
              /\ UNCHANGED <<root_state, tray_menu, settings_windows>>
           \/ /\ at = "menu"
              /\ tray_menu' = is_show_window(window_hidden)
              /\ tray_pc' = TrayReturn(fn)
              /\ UNCHANGED <<window_hidden, root_state, settings_windows>>
           \/ /\ at = "Toplevel"
              /\ MainLoopIdle
              /\ settings_windows' = settings_windows + 1
              /\ tray_pc' = TrayIdle
              /\ UNCHANGED <<window_hidden, root_state, tray_menu>>
    /\ UNCHANGED <<raceRest, main_pc>>
    /\ Bounded'

\* the close button of a settings window's title bar: open_settings
\* registers no WM_DELETE_WINDOW handler for it, Tk destroys the Toplevel
CloseSettings ==
    /\ main_pc = "idle"
    /\ settings_windows > 0
    /\ settings_windows' = settings_windows - 1
    /\ UNCHANGED <<cycleVars, entryVars, visVars, notes, now, histVars, extVars>>

InitRace == ConstructFrom(TRUE, UICases, NowSet)

NextRace ==
    \/ MainClose
    \/ MainStep
    \/ TrayClick
    \/ TrayStep
    \/ CloseSettings

SpecRace == InitRace /\ [][NextRace]_vars

(***************************************************************************)
(* The asd.py variant of ReminderApp.  Its fields have the names of the    *)
(* main program's; it has no tray icon and no notification window of its   *)
(* own: it reports through messagebox.showinfo, which returns when the     *)
(* dialog is closed and lets the pending callbacks run meanwhile.  Time is *)
(* counted in seconds: a pending callback is due when its delay has run    *)
(* down to 0.                                                              *)
(***************************************************************************)
MaxCountdowns == 2
MaxReminds == 2
MaxBoxes == 2

\* the fields the handlers of asd.py read and write
As == [is_running |-> is_running, remaining_time |-> remaining_time,
       input_state |-> input_state, start_button |-> start_button,
       countdown_label |-> countdown_label, pending |-> pending, msgbox |-> msgbox]

\* self.root.after(delay, fn), the delay in seconds
asd_after(a, delay, fn) ==
    [a EXCEPT !.pending = @ (+) SetToBag({[fn |-> fn, due |-> IF delay < 0 THEN 0 ELSE delay]})]

\* messagebox.showinfo opened by a handler that caller started: the handler
\* goes on when the dialog is closed
asd_showinfo(a, message, caller) ==
    [a EXCEPT !.msgbox = Append(@, [message |-> message, caller |-> caller])]

\* the handler is waiting in a dialog it opened
asd_waiting(before, after) == Len(after.msgbox) > Len(before.msgbox)

\* update_countdown up to messagebox.showinfo
asd_update_countdown(a, caller) ==
    IF ~a.is_running THEN a
    ELSE IF a.remaining_time > 0
         THEN asd_after([a EXCEPT !.remaining_time = @ - 1,
                                  !.countdown_label = FormatLabel(a.remaining_time - 1)],
                        1, "update_countdown")
         ELSE asd_showinfo([a EXCEPT !.is_running = FALSE], "drink_water", caller)

\* remind_user after update_countdown has returned
asd_remind_user_rest(a) ==
    IF a.is_running /\ IntOk(interval_var)
    THEN asd_after(a, IntVal(interval_var) * SecondsPerMinute, "remind_user")
    ELSE a

\* remind_user up to the first dialog: strptime raises ValueError on a
\* malformed time; the "%H:%M" strings compare as the minutes of the day do
asd_remind_user(a, t) ==
    IF ~TimeOk(start_time_var) \/ ~TimeOk(end_time_var) THEN a
    ELSE IF /\ TimeVal(start_time_var) <= t \div SecondsPerMinute
            /\ t \div SecondsPerMinute <= TimeVal(end_time_var)
         THEN LET r == asd_update_countdown(a, "remind_user")
              IN  IF asd_waiting(a, r) THEN r ELSE asd_remind_user_rest(r)
         ELSE asd_showinfo(a, "outside_range", "remind_user")

\* enable_input_fields(True) with the other two statements that go with it
asd_enable_input_fields(a) ==
    [a EXCEPT !.is_running = FALSE, !.start_button = "start_button",
              !.input_state = "normal"]

\* reset_timer, called when the "drink water" dialog of update_countdown
\* is closed, and the rest of the handler that the caller started
asd_reset_timer(a, caller) ==
    IF ~IntOk(interval_var) THEN a
    ELSE LET r == asd_update_countdown(
                      [a EXCEPT !.remaining_time = IntVal(interval_var) * SecondsPerMinute,
                                !.is_running = TRUE], caller)
         IN  IF asd_waiting(a, r) \/ caller # "remind_user" THEN r
             ELSE asd_remind_user_rest(r)

asd_toggle_reminder(a, t) ==
    IF a.is_running THEN asd_enable_input_fields(a)
    ELSE LET a1 == [a EXCEPT !.is_running = TRUE, !.start_button = "stop_button",
                             !.input_state = "disabled"]
         IN  IF ~IntOk(interval_var) THEN a1
             ELSE asd_remind_user(
                      [a1 EXCEPT !.remaining_time = IntVal(interval_var) * SecondsPerMinute], t)

CommitAsd(a) ==
    /\ is_running' = a.is_running
    /\ remaining_time' = a.remaining_time
    /\ input_state' = a.input_state
    /\ start_button' = a.start_button
    /\ countdown_label' = a.countdown_label
    /\ pending' = a.pending
    /\ msgbox' = a.msgbox

\* the pending callbacks of pending that call fn
PendingOf(bag, fn) ==
    BagCardinality([c \in {d \in BagToSet(bag) : d.fn = fn} |-> CopiesIn(c, bag)])

AsdBounded ==
    /\ PendingOf(pending, "update_countdown") <= MaxCountdowns
    /\ PendingOf(pending, "remind_user") <= MaxReminds
    /\ Len(msgbox) <= MaxBoxes

asdRest == <<after_id, timers, shows, notes, visVars, settings_windows, histVars,
             main_pc, tray_pc>>

\* the Start/Stop button; an open dialog keeps the window from input
AsdToggleReminder ==
    /\ msgbox = <<>>
    /\ CommitAsd(asd_toggle_reminder(As, now))
    /\ UNCHANGED <<asdRest, entryVars, now>>
    /\ AsdBounded'

\* a pending callback that is due runs
AsdTimerFire ==
    /\ \E c \in BagToSet(pending) :
          /\ c.due = 0
          /\ LET a == [As EXCEPT !.pending = @ (-) SetToBag({c})]
             IN  IF c.fn = "update_countdown"
                 THEN CommitAsd(asd_update_countdown(a, "after"))
                 ELSE CommitAsd(asd_remind_user(a, now))
    /\ UNCHANGED <<asdRest, entryVars, now>>
    /\ AsdBounded'

\* a second passes: no callback is due, each delay runs down by one
AsdSecond ==
    /\ pending # EmptyBag
    /\ \A c \in BagToSet(pending) : c.due > 0
    /\ pending' = [c \in {[fn |-> d.fn, due |-> d.due - 1] : d \in BagToSet(pending)}
                     |-> CopiesIn([fn |-> c.fn, due |-> c.due + 1], pending)]
    /\ UNCHANGED <<is_running, remaining_time, input_state, start_button,
                   countdown_label, msgbox, asdRest, entryVars, now>>

\* the dialog opened last is closed: showinfo returns into its handler
AsdCloseBox ==
    /\ msgbox # <<>>
    /\ LET box == msgbox[Len(msgbox)]
           a == [As EXCEPT !.msgbox = SubSeq(msgbox, 1, Len(msgbox) - 1)]
       IN  IF box.message = "drink_water"
           THEN CommitAsd(asd_reset_timer(a, box.caller))
           ELSE CommitAsd(asd_enable_input_fields(a))
    /\ UNCHANGED <<asdRest, entryVars, now>>
    /\ AsdBounded'

\* datetime.now() moves on to a later instant of the day
AsdClock(t) ==
    /\ t > now
    /\ now' = t
    /\ UNCHANGED <<is_running, remaining_time, input_state, start_button,
                   countdown_label, msgbox, pending, asdRest, entryVars>>

\* what the entries hold during a run
AsdCases ==
    { Case(TXT_1, TXT_0900, TXT_1730),
      Case(TXT_x, TXT_0900, TXT_1730),
      Case(TXT_1, TXT_9h, TXT_1730) }

\* ReminderApp.__init__ of asd.py
InitAsd ==
    /\ is_running = FALSE
    /\ remaining_time = 0
    /\ \E c \in AsdCases :
          /\ interval_var = c.interval
          /\ start_time_var = c.start_time
          /\ end_time_var = c.end_time
    /\ input_state = "normal"
    /\ start_button = "start_button"
    /\ countdown_label = ResetLabel
    /\ pending = EmptyBag
    /\ msgbox = <<>>
    /\ now \in NowSet
    /\ after_id = None /\ timers = <<>> /\ shows = <<>> /\ notes = EmptyBag
    /\ window_hidden = FALSE /\ tray_icon = FALSE /\ root_state = "normal"
    /\ tray_menu = "none" /\ settings_windows = 0
    /\ armed = 0 /\ fired = 0 /\ halted = FALSE
    /\ main_pc = "idle" /\ tray_pc = TrayIdle

NextAsd ==
    \/ AsdToggleReminder
    \/ AsdTimerFire
    \/ AsdSecond
    \/ AsdCloseBox
    \/ \E t \in NowSet : AsdClock(t)

SpecAsd == InitAsd /\ [][NextAsd]_vars

TypeOK ==
    /\ is_running \in BOOLEAN
    /\ remaining_time \in Int
    /\ after_id \in 0..(MaxTimers + 1)
    /\ Range(timers) \subseteq 1..(MaxTimers + 1)
    /\ input_state \in {"normal", "disabled"}
    /\ halted \in BOOLEAN
    /\ Bounded

(***************************************************************************)
(* Vocabulary of the claims.                                               *)
(***************************************************************************)
IsReminder(n) == n.callback = "on_notification_closed"

\* a reminder prompt is scheduled or open
ReminderOutstanding ==
    \/ \E i \in 1..Len(shows) : IsReminder(shows[i])
    \/ \E n \in BagToSet(notes) : IsReminder(n)

\* a one-second tick is scheduled and recorded in after_id
TickScheduled == after_id # None /\ after_id \in Range(timers)

Armed == is_running /\ TickScheduled

Notifying == ~is_running /\ ReminderOutstanding

Idle == ~is_running /\ ~ReminderOutstanding

InputsLocked == input_state = "disabled"

\* the step runs start_reminder (the button pressed while is_running is false)
StartStep == ToggleReminder /\ ~is_running

\* the step runs stop_reminder: the button pressed while is_running is true,
\* or a reminder prompt acknowledged while the inputs fail validation
StopStep ==
    \/ ToggleReminder /\ is_running
    \/ \E n \in BagToSet(notes) :
          Close(n) /\ IsReminder(n) /\ IntOk(interval_var) /\ ~InputsValid

\* the step acknowledges a reminder prompt
AckStep == \E n \in BagToSet(notes) : Close(n) /\ IsReminder(n)

(***************************************************************************)
(* C1.  For every input that validates, start() invoked in Idle makes the  *)
(* machine Armed (is_running, a tick scheduled) and locks the inputs.      *)
(***************************************************************************)
C1_StartArms ==
    [][(StartStep /\ Idle /\ InputsValid) => (Armed /\ InputsLocked)']_vars

\* start() from the initial Idle state has armed the first cycle
C1_Witness ==
    /\ Armed /\ InputsLocked
    /\ armed = IntVal(interval_var) * SecondsPerMinute
    /\ fired = 0
    /\ notes = EmptyBag /\ shows = <<>>
    /\ timers = <<after_id>>

(***************************************************************************)
(* C2.  stop() leaves the machine Idle from whatever state it is invoked   *)
(* in: is_running false, inputs unlocked, countdown display reset and no   *)
(* scheduled tick recorded in after_id.                                    *)
(***************************************************************************)
C2_StopIdles ==
    [][StopStep => (/\ ~is_running
                    /\ input_state = "normal"
                    /\ countdown_label = ResetLabel
                    /\ start_button = "start_button"
                    /\ after_id = None)']_vars

\* stop() has ended a cycle that was counting down, a prompt still open
C2_Witness ==
    /\ ~is_running /\ input_state = "normal" /\ after_id = None
    /\ countdown_label = ResetLabel
    /\ remaining_time > 0 /\ remaining_time < SecondsPerMinute - 1
    /\ \E n \in BagToSet(notes) : IsReminder(n)

\* the entries hold a valid interval and window, and the clock is outside it
OutsideWindow ==
    ValidationError(interval_var, start_time_var, end_time_var, now) = "outside_range"

\* the step schedules the notification n, and no other
Schedules(n) == shows' = Append(shows, n)

ReminderNote == Note("app_name", "drink_water", "on_notification_closed")

ErrorNote(key) == Note("invalid_input", key, "None")

(***************************************************************************)
(* C3.  A tick taken while Armed with time remaining and the clock outside *)
(* the schedule window leaves Armed on that tick and opens the "outside    *)
(* range" prompt.                                                          *)
(***************************************************************************)
C3_TickRechecksWindow ==
    [][(TimerFire /\ is_running /\ remaining_time > 0 /\ OutsideWindow)
          => (~is_running' /\ Schedules(ErrorNote("outside_range")))]_vars

(***************************************************************************)
(* C4.  As claimed: the tick that brings remaining_time to 0 raises the    *)
(* expiry (the machine is Notifying when that tick returns).               *)
(***************************************************************************)
C4_ExpiryOnReachingZero ==
    [][(TimerFire /\ is_running /\ remaining_time = 1)
          => (remaining_time = 0 /\ Notifying)']_vars

\* the step is a tick that raises the expiry
ExpiryStep == TimerFire /\ is_running /\ ~is_running'

(***************************************************************************)
(* C4, amended.  A tick raises the expiry exactly when it finds            *)
(* remaining_time no longer positive (0 at the end of a countdown): it     *)
(* leaves remaining_time as it found it and schedules the reminder prompt. *)
(* A tick that finds it positive decrements it by one and raises nothing.  *)
(* Arming runs the first decrement itself, so the expiry of a cycle armed  *)
(* with N seconds is raised by the N-th timer firing, with remaining_time  *)
(* 0.                                                                      *)
(***************************************************************************)
C4_ExpiryAfterZero ==
    [][TimerFire =>
          /\ ExpiryStep <=> (is_running /\ remaining_time <= 0)
          /\ ExpiryStep => /\ remaining_time' = remaining_time
                           /\ Schedules(ReminderNote)
                           /\ Notifying'
                           /\ armed > 0 => (fired' = armed /\ remaining_time' = 0)
          /\ (is_running /\ remaining_time > 0) =>
                 /\ remaining_time' = remaining_time - 1
                 /\ shows' = shows]_vars

\* the 60th firing after start() has raised the expiry of a one-minute cycle
C4_Witness ==
    /\ Notifying /\ remaining_time = 0
    /\ armed = SecondsPerMinute /\ fired = armed
    /\ \E n \in BagToSet(notes) : n = ReminderNote

(***************************************************************************)
(* C5.  As claimed: acknowledging the reminder prompt in Notifying always  *)
(* returns the machine to Armed.                                           *)
(***************************************************************************)
C5_AckAlwaysArms == [][(AckStep /\ Notifying) => Armed']_vars

(***************************************************************************)
(* C5, amended.  Acknowledging the reminder prompt in Notifying re-arms    *)
(* the machine (Armed, a fresh countdown of the full interval, a new tick  *)
(* scheduled) exactly when the inputs validate at that moment.  When they  *)
(* fail validation (the clock outside the window) stop_reminder runs and   *)
(* the error is notified; when the interval text is no integer the handler *)
(* is aborted with is_running set and nothing scheduled.                   *)
(***************************************************************************)
\* the step re-arms the countdown from the interval entry
RearmStep ==
    /\ Armed'
    /\ IntOk(interval_var)
    /\ remaining_time' = IntVal(interval_var) * SecondsPerMinute - 1
    /\ timers' = Append(timers, after_id')

C5_AckArmsIffValid ==
    [][(AckStep /\ Notifying) =>
          /\ RearmStep <=> InputsValid
          /\ (IntOk(interval_var) /\ ~InputsValid) =>
                 /\ ~is_running' /\ after_id' = None
                 /\ Schedules(ErrorNote(ValidationError(interval_var, start_time_var,
                                                        end_time_var, now)))
          /\ ~IntOk(interval_var) =>
                 /\ is_running'
                 /\ UNCHANGED <<remaining_time, timers, after_id, shows>>]_vars

\* the prompt was acknowledged outside the window: stopped, error notified
C5_Witness ==
    /\ ~is_running /\ after_id = None /\ input_state = "normal"
    /\ IntOk(interval_var)
    /\ remaining_time = IntVal(interval_var) * SecondsPerMinute
    /\ shows = <<ErrorNote("outside_range")>>
    /\ notes = EmptyBag

(***************************************************************************)
(* C6.  At most one notification window is open in any reachable state.    *)
(***************************************************************************)
C6_SingleFlow == BagCardinality(notes) <= 1

(***************************************************************************)
(* C7.  While a notification window stays open, remaining_time does not    *)
(* change.                                                                 *)
(***************************************************************************)
C7_PausedWhileOpen ==
    [][(notes # EmptyBag /\ notes' = notes) => remaining_time' = remaining_time]_vars

(***************************************************************************)
(* C8.  At most one scheduled tick callback is pending in any reachable    *)
(* state.                                                                  *)
(***************************************************************************)
C8_OneTickPending == Len(timers) <= 1

(***************************************************************************)
(* C9.  stop() cancels every pending scheduled tick: none is pending when  *)
(* stop_reminder has run.                                                  *)
(***************************************************************************)
C9_StopCancelsAll == [][StopStep => timers' = <<>>]_vars

(***************************************************************************)
(* C10.  When validation fails, start() invoked in Idle makes no           *)
(* transition: the machine stays Idle with the entries editable,           *)
(* remaining_time, the pending ticks and after_id unchanged, and the error *)
(* of the failing check is scheduled as a notification.                    *)
(***************************************************************************)
C10_RejectedStart ==
    [][(StartStep /\ Idle /\ ~InputsValid) =>
          /\ Idle'
          /\ input_state' = "normal"
          /\ UNCHANGED <<remaining_time, timers, after_id, start_button,
                         countdown_label, notes>>
          /\ Schedules(ErrorNote(ValidationError(interval_var, start_time_var,
                                                 end_time_var, now)))]_vars

\* start() at 18:00 with the window 09:00-17:30 was rejected
C10_Witness ==
    /\ Idle /\ input_state = "normal"
    /\ remaining_time = 0 /\ timers = <<>> /\ after_id = None
    /\ now = T_1800
    /\ shows = <<ErrorNote("outside_range")>>

(***************************************************************************)
(* C11.  remaining_time is never negative, increases only in a step that   *)
(* arms or re-arms (start() or the acknowledgement of a reminder prompt),  *)
(* and a tick that changes it decrements it by exactly 1.                  *)
(***************************************************************************)
C11_RemainingMonotone ==
    [][/\ remaining_time' >= 0
       /\ remaining_time' > remaining_time => (StartStep \/ AckStep)
       /\ (TimerFire /\ remaining_time' # remaining_time)
             => remaining_time' = remaining_time - 1]_vars

(***************************************************************************)
(* C12.  As claimed: when start() from Idle or the acknowledgement of a    *)
(* reminder prompt has armed the countdown, remaining_time is the full     *)
(* interval, minutes x 60.                                                 *)
(***************************************************************************)
\* the step arms the countdown: start() in Idle, or a reminder prompt
\* acknowledged in Notifying, with inputs that validate
ArmStep == ((StartStep /\ Idle) \/ (AckStep /\ Notifying)) /\ InputsValid

intervalSeconds == IntVal(interval_var) * SecondsPerMinute

C12_ArmSetsFullInterval ==
    [][ArmStep => remaining_time' = intervalSeconds]_vars

(***************************************************************************)
(* C12, amended.  Arming loads remaining_time with minutes x 60 and runs   *)
(* the first update at once: when start() or the acknowledgement has       *)
(* completed, remaining_time is minutes x 60 - 1, the label shows it, and  *)
(* each timer firing that follows decrements it by one more.               *)
(***************************************************************************)
C12_ArmRunsFirstUpdate ==
    [][/\ ArmStep => /\ remaining_time' = intervalSeconds - 1
                     /\ countdown_label' = FormatLabel(intervalSeconds - 1)
                     /\ Armed'
       /\ (TimerFire /\ is_running /\ armed > 0 /\ remaining_time > 0)
             => remaining_time' = armed - 1 - fired']_vars

\* start() has just returned for a one-minute interval: 59 seconds remain
C12_Witness ==
    /\ Armed /\ armed = SecondsPerMinute /\ fired = 0
    /\ remaining_time = SecondsPerMinute - 1
    /\ countdown_label = FormatLabel(SecondsPerMinute - 1)

(***************************************************************************)
(* C13.  The window test of validation is half-open: with a valid interval *)
(* and a valid window, start() is accepted iff start <= now < end; it is   *)
(* rejected as outside the range otherwise.                                *)
(***************************************************************************)
\* the entries hold a positive interval and well-formed times
WellFormed ==
    /\ IntOk(Strip(interval_var)) /\ IntVal(Strip(interval_var)) > 0
    /\ TimeOk(Strip(start_time_var)) /\ TimeOk(Strip(end_time_var))

startOfWindow == TimeVal(Strip(start_time_var)) * SecondsPerMinute
endOfWindow == TimeVal(Strip(end_time_var)) * SecondsPerMinute

C13_WindowHalfOpen ==
    [][(StartStep /\ WellFormed /\ startOfWindow < endOfWindow) =>
          /\ is_running' <=> (startOfWindow <= now /\ now < endOfWindow)
          /\ ~is_running' => Schedules(ErrorNote("outside_range"))]_vars

\* start() at exactly the end instant 17:30:00 of the window was rejected
C13_Witness ==
    /\ end_time_var = TXT_1730 /\ now = T_1730
    /\ ~is_running
    /\ shows = <<ErrorNote("outside_range")>>

(***************************************************************************)
(* C14.  With a valid interval and well-formed times, start() is rejected  *)
(* with the time-order error whenever end <= start, equal or inverted.     *)
(***************************************************************************)
C14_OrderError ==
    [][(StartStep /\ WellFormed /\ endOfWindow <= startOfWindow) =>
          /\ ~is_running'
          /\ Schedules(ErrorNote("time_error"))]_vars

\* start() with start = end = 17:30, at 17:30, was rejected with time_error
C14_Witness ==
    /\ start_time_var = TXT_1730 /\ end_time_var = TXT_1730 /\ now = T_1730
    /\ ~is_running
    /\ shows = <<ErrorNote("time_error")>>

(***************************************************************************)
(* C15.  minimize_to_tray and restore_window are idempotent: in every      *)
(* reachable state, calling either a second time leaves window_hidden, the *)
(* window's shown/withdrawn status and the tray menu as the first call     *)
(* left them.                                                              *)
(***************************************************************************)
C15_Idempotent ==
    /\ minimize_to_tray(minimize_to_tray(Vis)) = minimize_to_tray(Vis)
    /\ restore_window(restore_window(Vis)) = restore_window(Vis)
    /\ window_hidden => minimize_to_tray(Vis) = Vis
    /\ ~window_hidden => restore_window(Vis) = Vis

\* the window has been hidden to the tray: a further minimize_to_tray finds
\* its target visibility already holding
C15_Witness ==
    /\ window_hidden /\ root_state = "withdrawn"
    /\ tray_icon /\ tray_menu = is_show_window(TRUE)
    /\ settings_windows = 0 /\ ~is_running /\ notes = EmptyBag

(***************************************************************************)
(* C16.  Closing a notification window runs its callback exactly once: the *)
(* step that destroys a reminder prompt applies on_notification_closed     *)
(* once to the state, the step that destroys a window without callback     *)
(* changes nothing of the reminder cycle, and the step that opens a window *)
(* runs no callback.  The window is destroyed by the step that runs the    *)
(* callback, so no later close event exists for it.                        *)
(***************************************************************************)
\* the step destroys one notification window n
ClosedStep(n) == BagIn(n, notes) /\ notes' = notes (-) SetToBag({n})

\* the step opens the notification window that was scheduled first
OpenedStep == shows # <<>> /\ notes' = notes (+) SetToBag({Head(shows)})

C16_CallbackOncePerClose ==
    [][/\ \A n \in BagToSet(notes) :
             ClosedStep(n) => IF IsReminder(n)
                              THEN Commit(on_notification_closed(St))
                              ELSE UNCHANGED cycleVars
       /\ OpenedStep => UNCHANGED <<is_running, remaining_time, after_id, timers,
                                    input_state, start_button, countdown_label>>
       /\ AckStep => BagCardinality(notes') = BagCardinality(notes) - 1]_vars

\* a reminder prompt was acknowledged before the callback scheduled by the
\* expiry tick fired: the callback re-armed the countdown once
C16_Witness ==
    /\ notes = EmptyBag /\ shows = <<>>
    /\ Armed /\ armed = SecondsPerMinute /\ fired = 0
    /\ remaining_time = SecondsPerMinute - 1
    /\ Len(timers) = 2

(***************************************************************************)
(* C19.  Once the cycle has been halted because the current time was found *)
(* outside the window, the machine stays un-armed with no tick pending,    *)
(* whatever the clock does, until start() arms it again.                   *)
(***************************************************************************)
C19_NoAutoResume == halted => (~is_running /\ timers = <<>>)

(***************************************************************************)
(* C17.  The tray worker thread never writes core state: no step taken by  *)
(* a handler of the tray menu, which runs in the TrayIconThread, changes   *)
(* window_hidden, is_running, remaining_time or after_id.                  *)
(***************************************************************************)
\* the step is a handler of the tray menu, run by the TrayIconThread
TrayThreadStep == ToggleWindow \/ OpenSettings \/ ExitApplication

C17_TrayThreadWritesNothing ==
    [][TrayThreadStep =>
          UNCHANGED <<window_hidden, is_running, remaining_time, after_id>>]_vars

(***************************************************************************)
(* C18.  While the application lives without a tray icon, its main window  *)
(* is never hidden: window_hidden is false and the window is shown.        *)
(***************************************************************************)
C18_NeverUnreachable ==
    (root_state # "destroyed" /\ ~tray_icon)
        => (~window_hidden /\ root_state = "normal")

(***************************************************************************)
(* C20.  A notification is presented whatever the visibility and never     *)
(* changes it: with the window hidden a tick still decrements the          *)
(* countdown and the expiry tick still schedules the reminder prompt; the  *)
(* step that opens a window opens the one scheduled first; and no tick,    *)
(* and no step that schedules, opens or closes a notification, changes     *)
(* window_hidden or the window's shown/withdrawn status (the exit of the   *)
(* application apart, which destroys every window).                        *)
(***************************************************************************)
C20_NotificationKeepsVisibility ==
    [][/\ (TimerFire /\ window_hidden /\ is_running /\ remaining_time > 0)
             => remaining_time' = remaining_time - 1
       /\ (TimerFire /\ window_hidden /\ is_running /\ remaining_time = 0)
             => Schedules(ReminderNote)
       /\ (shows # <<>> /\ shows' # shows)
             => notes' = notes (+) SetToBag({Head(shows)})
       /\ (TimerFire \/ shows' # shows \/ notes' # notes)
             => (UNCHANGED <<window_hidden, root_state>> \/ ExitApplication)]_vars

\* the countdown expired and the reminder prompt opened with the window
\* hidden in the tray all along
C20_Witness ==
    /\ window_hidden /\ root_state = "withdrawn"
    /\ BagIn(ReminderNote, notes)
    /\ ~is_running /\ remaining_time = 0
    /\ armed = SecondsPerMinute /\ fired = armed

(***************************************************************************)
(* C21.  As claimed: every validation attempt surfaces exactly one error,  *)
(* that of the first failing check in the order Empty, NotANumber,         *)
(* NotPositive, TimeFormatError, TimeOrderError, OutsideRange, and         *)
(* succeeds iff none of the six fails.                                     *)
(***************************************************************************)
\* the six checks, each on its own
Empty(iv) == Strip(iv) = <<>>
NotANumber(iv) == ~IntOk(Strip(iv))
NotPositive(iv) == IntOk(Strip(iv)) /\ IntVal(Strip(iv)) <= 0
TimeFormatError(st, en) == ~TimeOk(Strip(st)) \/ ~TimeOk(Strip(en))
TimeOrderError(st, en) ==
    /\ ~TimeFormatError(st, en)
    /\ TimeVal(Strip(en)) <= TimeVal(Strip(st))
OutsideRange(st, en, t) ==
    /\ ~TimeFormatError(st, en)
    /\ ~(/\ TimeVal(Strip(st)) * SecondsPerMinute <= t
         /\ t < TimeVal(Strip(en)) * SecondsPerMinute)

\* the checks in their fixed order, with the key of the message of each
Checks(iv, st, en, t) ==
    << [key |-> "interval_empty",   fails |-> Empty(iv)],
       [key |-> "interval_invalid", fails |-> NotANumber(iv)],
       [key |-> "interval_error",   fails |-> NotPositive(iv)],
       [key |-> "time_invalid",     fails |-> TimeFormatError(st, en)],
       [key |-> "time_error",       fails |-> TimeOrderError(st, en)],
       [key |-> "outside_range",    fails |-> OutsideRange(st, en, t)] >>

\* the key of the first failing check, "ok" when none fails
FirstFailing(iv, st, en, t) ==
    LET cs == Checks(iv, st, en, t)
        failing == {i \in 1..Len(cs) : cs[i].fails}
    IN  IF failing = {} THEN "ok"
        ELSE cs[CHOOSE i \in failing : \A j \in failing : i <= j].key

\* start() validates the entries: accepted iff no check fails, else the one
\* message of the first failing check
StartSurfacesFirstFailing ==
    StartStep =>
        LET e == FirstFailing(interval_var, start_time_var, end_time_var, now)
        IN  IF e = "ok" THEN is_running' /\ shows' = shows
            ELSE ~is_running' /\ Schedules(ErrorNote(e))

\* the Save button validates the texts c of the settings window: accepted
\* (the entries take them) iff no check fails
SaveAcceptsIffNoneFails(c) ==
    SaveAndClose(c) =>
        LET e == FirstFailing(c.interval, c.start_time, c.end_time, now)
        IN  IF e = "ok"
            THEN /\ <<interval_var', start_time_var', end_time_var'>>
                       = <<c.interval, c.start_time, c.end_time>>
                 /\ shows' = shows
            ELSE /\ UNCHANGED entryVars
                 /\ Len(shows') = Len(shows) + 1

C21_FirstFailingSurfaced ==
    [][/\ StartSurfacesFirstFailing
       /\ \A c \in OrderCases :
             /\ SaveAcceptsIffNoneFails(c)
             /\ (SaveAndClose(c) /\ ~UNCHANGED shows) =>
                    Schedules(ErrorNote(FirstFailing(c.interval, c.start_time,
                                                     c.end_time, now)))]_vars

(***************************************************************************)
(* C21, amended.  start() surfaces exactly one error, that of the first    *)
(* failing check in the fixed order, and succeeds iff none of the six      *)
(* checks fails.  The Save button of the settings window succeeds iff none *)
(* of the six checks fails on its texts, and surfaces one message          *)
(* otherwise: the general "invalid input" one, whichever check failed.     *)
(***************************************************************************)
C21_FirstFailingOrGeneral ==
    [][/\ StartSurfacesFirstFailing
       /\ \A c \in OrderCases :
             /\ SaveAcceptsIffNoneFails(c)
             /\ (SaveAndClose(c) /\ ~UNCHANGED shows) =>
                    Schedules(Note("invalid_input", "invalid_input", "None"))]_vars

\* start() with an empty interval and a malformed start time was rejected
\* with the message of the empty interval
C21_Witness ==
    /\ interval_var = TXT_blank /\ start_time_var = TXT_9h
    /\ ~is_running
    /\ shows = <<ErrorNote("interval_empty")>>

(***************************************************************************)
(* C22.  In every reachable state the interval, start and end entries are  *)
(* editable iff the machine is Idle: they are locked whenever is_running   *)
(* is set or a reminder prompt is outstanding, and no cycle is active      *)
(* whenever they are unlocked.                                             *)
(***************************************************************************)
C22_EditableIffIdle == (input_state = "normal") <=> Idle

\* reminder prompts outstanding: scheduled to be shown, or open
ReminderPrompts ==
    Cardinality({i \in DOMAIN shows : IsReminder(shows[i])})
        + CopiesIn(ReminderNote, notes)

(***************************************************************************)
(* C23.  While a reminder prompt is outstanding no second countdown expiry *)
(* happens: at most one reminder prompt is outstanding in any reachable    *)
(* state.                                                                  *)
(***************************************************************************)
C23_OneReminderPrompt == ReminderPrompts <= 1

\* an "outside range" prompt is outstanding: scheduled to be shown, or open
OutsidePromptOutstanding ==
    \/ \E i \in DOMAIN shows : shows[i] = ErrorNote("outside_range")
    \/ BagIn(ErrorNote("outside_range"), notes)

(***************************************************************************)
(* C24.  After the out-of-window detection the machine stays suspended for *)
(* as long as the "outside range" prompt is outstanding: the step that     *)
(* detects it leaves the entries locked and the display as it was, and the *)
(* entries stay locked while the prompt is outstanding.                    *)
(***************************************************************************)
C24_SuspendedWhilePrompt ==
    /\ [][(AckStep /\ ~halted /\ halted')
            => (InputsLocked' /\ UNCHANGED countdown_label)]_vars
    /\ []((halted /\ OutsidePromptOutstanding) => InputsLocked)

(***************************************************************************)
(* C25.  The Start/Stop button pressed in a non-Idle state, Notifying      *)
(* included, performs stop(): the step leaves is_running false.  It starts *)
(* a cycle only when pressed in Idle.                                      *)
(***************************************************************************)
C25_ButtonStartsOnlyInIdle ==
    [][ToggleReminder => (is_running' => Idle)]_vars

(***************************************************************************)
(* C26.  After stop() the machine remains Idle until the next start():     *)
(* acknowledging a reminder prompt while no cycle is armed (stop() has run *)
(* since the last arming) does not set is_running, reload remaining_time   *)
(* or schedule a tick.                                                     *)
(***************************************************************************)
C26_AckAfterStopInert ==
    [][(AckStep /\ ~is_running /\ armed = 0)
         => (~is_running' /\ UNCHANGED <<remaining_time, after_id, timers>>)]_vars

(***************************************************************************)
(* C27.  Whenever a handler has returned with is_running true a tick is    *)
(* scheduled: no reachable state has is_running set and no timer pending,  *)
(* a state no tick would ever leave.                                       *)
(***************************************************************************)
C27_RunningHasTick == is_running => timers # <<>>

\* both threads are between handlers
Quiescent == main_pc = "idle" /\ tray_pc = TrayIdle

(***************************************************************************)
(* C28.  Under every interleaving of the main thread's minimize_to_tray    *)
(* with the menu callbacks of the TrayIconThread, once all handlers have   *)
(* finished window_hidden is true iff the main window is withdrawn.        *)
(***************************************************************************)
C28_FlagAgreesWhenQuiescent ==
    Quiescent => (window_hidden <=> root_state = "withdrawn")

\* both threads are inside a handler, the window withdrawn by one of them
\* and window_hidden not yet written
C28_Witness ==
    /\ main_pc # "idle" /\ tray_pc # TrayIdle
    /\ root_state = "withdrawn" /\ ~window_hidden

\* asd.py: the pending one-second update_countdown callbacks
CountdownsPending == PendingOf(pending, "update_countdown")

(***************************************************************************)
(* C29.  In the asd.py variant at most one one-second update_countdown     *)
(* callback is pending in any reachable state: neither a stop followed by  *)
(* a start nor the periodic remind_user starts a second countdown chain.   *)
(***************************************************************************)
C29_OneCountdownPending == CountdownsPending <= 1

====
